---- MODULE Spec2Model ----
(***************************************************************************)
(* Model of backend/utils.py of the recipe chatbot: the module-level       *)
(* configuration (load_dotenv, SYSTEM_PROMPT, MODEL_NAME) and the wrapper  *)
(* get_agent_response around litellm.completion.                           *)
(*                                                                         *)
(* Python lists are objects: the model keeps a heap of list objects so     *)
(* that the aliasing `current_messages = messages` (line 125) and the      *)
(* allocations of lines 123 and 137 are what the code does.  Turns are     *)
(* dicts the code never writes to; they are modelled as values.  Strings   *)
(* are sequences of characters, so that str.strip() is computed.           *)
(***************************************************************************)
EXTENDS Naturals, Sequences, FiniteSets

(***************************************************************************)
(* Bounds of the model.                                                    *)
(***************************************************************************)
\* calls of get_agent_response that return a conversation
MaxCalls == 2
\* choices a provider response carries after its first one
MaxExtraChoices == 1

\* the threads of the caller that may be inside get_agent_response at once
Threads == { 1, 2 }

(***************************************************************************)
(* Strings.                                                                *)
(***************************************************************************)
\* the characters str.strip() removes (the ones the model's strings use)
Whitespace == {" ", "\n", "\t"}

RECURSIVE StripLeft(_)
StripLeft(s) ==
    IF s # <<>> /\ Head(s) \in Whitespace THEN StripLeft(Tail(s)) ELSE s

RECURSIVE StripRight(_)
StripRight(s) ==
    IF s # <<>> /\ s[Len(s)] \in Whitespace
    THEN StripRight(SubSeq(s, 1, Len(s) - 1))
    ELSE s

\* a variant that only strips the left end
StripLeftOnly(s) == StripLeft(s)

\* str.strip() with no argument
Strip(s) == StripRight(StripLeft(s))

(***************************************************************************)
(* Constants of the module.                                                *)
(***************************************************************************)
\* The fixed instruction text, abbreviated to its first character and its
\* last two (the text ends in two line breaks).
SYSTEM_PROMPT == <<"Y", "\n", "\n">>

DEFAULT_MODEL == "gpt-3.5-turbo"

Turn(r, c) == [role |-> r, content |-> c]

\* Turns and conversations the caller builds
Custom == <<"c">>
Hi == <<"h", "i">>
Yo == <<"y", "o">>
\* the conversations the caller starts from: empty, or beginning with each role
Inputs ==
    { <<>>,
      << Turn("user", Hi) >>,
      << Turn("assistant", Yo), Turn("system", Custom) >>,
      << Turn("system", Custom), Turn("user", Hi) >>,
      << Turn("system", SYSTEM_PROMPT) >> }

(***************************************************************************)
(* The environment variable MODEL_NAME: unset, or set to a string (the     *)
(* empty string included).                                                 *)
(***************************************************************************)
Unset == [set |-> FALSE, value |-> ""]
SetTo(v) == [set |-> TRUE, value |-> v]
EnvValues == { Unset, SetTo(""), SetTo("gpt-4o") }

\* load_dotenv(override=False): a variable the process already has is kept
LoadDotenv(procEnv, dotenvFile) == IF procEnv.set THEN procEnv ELSE dotenvFile

\* a lookup that also falls back on the empty string
EnvGetOrEmpty(e, default) == IF e.set /\ e.value # "" THEN e.value ELSE default

\* os.environ.get(name, default)
EnvGet(e, default) == IF e.set THEN e.value ELSE default

(***************************************************************************)
(* The completion provider's answers: it raises, or returns a response.    *)
(* A response may lack "choices", carry no choice, or carry choices whose  *)
(* message content is a string or None.                                    *)
(***************************************************************************)
ProviderErrors == { "AuthenticationError", "Timeout" }
\* message contents: with whitespace at both ends and inside, and of
\* whitespace only
ReplyContents == { <<" ", "H", " ", "i", "\n">>, <<"\t", "\n">> }
Other == <<"X">>
StrChoice(c) == [isStr |-> TRUE, content |-> c]
NoneChoice == [isStr |-> FALSE, content |-> <<>>]

NoCompletion == [kind |-> "none", exc |-> "", choices |-> <<>>]
Raises(e) == [kind |-> "raise", exc |-> e, choices |-> <<>>]
NoChoicesKey == [kind |-> "malformed", exc |-> "", choices |-> <<>>]
Returns(cs) == [kind |-> "return", exc |-> "", choices |-> cs]
Responses ==
    { Raises(e) : e \in ProviderErrors }
    \cup { NoChoicesKey, Returns(<<>>), Returns(<< NoneChoice >>) }
    \cup { Returns(<< StrChoice(c) >> \o [i \in 1..n |-> StrChoice(Other)]) :
             c \in ReplyContents, n \in { 0, MaxExtraChoices } }

\* the answers of a test's stub: an error, no choice, or several choices
StubResponses ==
    { Raises("Timeout"), Returns(<<>>) }
    \cup { Returns(<< StrChoice(c) >> \o [i \in 1..n |-> StrChoice(Other)]) :
             c \in { <<" ", "H", " ", "i", "\n">>, <<"\t", "H", " ", "i">> },
             n \in { MaxExtraChoices } }

NoRef == 0
\* ids for the caller's lists, the lists of line 123 of the calls under way
\* and the lists the calls return: the heap is never full
ListIds == 1..(1 + 3 * MaxCalls)
NoRequest == [model |-> "", messages |-> <<>>]
\* How a list came to be: the calls of get_agent_response behind it, how many
\* of them put the prompt in front, the list it was made from, and whether a
\* call returned it (or the caller built it).
NoOrigin == [calls |-> 0, inserts |-> 0, parent |-> NoRef, output |-> FALSE]

VARIABLES
    env,              \* os.environ["MODEL_NAME"] as it is now
    envAtImport,      \* history: os.environ["MODEL_NAME"] when line 96 read it
    MODEL_NAME,       \* the module constant of line 93
    live,             \* ids of the list objects that exist
    heap,             \* the list objects: heap[id] is the list's Turns
    visible,          \* ids of the lists the caller holds a reference to
    origin,           \* history: how each list came to be, see NoOrigin
    pc,               \* where each thread is in get_agent_response
    messages,         \* the parameter: a reference
    current_messages, \* the local of line 121: a reference
    completion,       \* the local of line 127
    reply,            \* assistant_reply_content
    ret,              \* the returned reference (line 140)
    exc,              \* the exception leaving the function, "" if none
    snap,             \* history: the Turns of `messages` when the call began
    request,          \* history: what litellm.completion was called with
    stub,             \* a test's stub: the requests it has answered, and how
    log               \* history: what the calls of the test gave the caller

vars == << env, envAtImport, MODEL_NAME, live, heap, visible, origin, pc, messages,
           current_messages, completion, reply, ret, exc, snap, request,
           stub, log >>

config == << env, envAtImport, MODEL_NAME >>
locals == << pc, messages, current_messages, completion, reply, ret, exc,
             snap, request >>

(***************************************************************************)
(* Module import, lines 17-98, and the conversation the caller starts from. *)
(***************************************************************************)
\* Line 17, then lines 93-98: the left operand of `and` is a Path, which is
\* always true, so MODEL_NAME is the value of the lookup of line 96.  (In the
\* root directory with_suffix raises and the import fails: no state.)
Import(procEnv, dotenvFile) ==
    /\ env = LoadDotenv(procEnv, dotenvFile)
    /\ envAtImport = env
    /\ MODEL_NAME = EnvGet(env, DEFAULT_MODEL)

Start(conv) ==
    /\ live = { 1 }
    /\ heap = [l \in ListIds |-> IF l = 1 THEN conv ELSE <<>>]
    /\ visible = { 1 }
    /\ origin = [l \in ListIds |-> NoOrigin]
    /\ pc = [t \in Threads |-> "idle"]
    /\ messages = [t \in Threads |-> NoRef]
    /\ current_messages = [t \in Threads |-> NoRef]
    /\ completion = [t \in Threads |-> NoCompletion]
    /\ reply = [t \in Threads |-> <<>>]
    /\ ret = [t \in Threads |-> NoRef]
    /\ exc = [t \in Threads |-> ""]
    /\ snap = [t \in Threads |-> <<>>]
    /\ request = [t \in Threads |-> NoRequest]
    /\ stub = {}
    /\ log = {}

\* a process started without MODEL_NAME and without a .env file
Init ==
    /\ Import(Unset, Unset)
    /\ \E conv \in Inputs : Start(conv)

\* a process started with any MODEL_NAME and any .env file
InitEnv ==
    /\ \E procEnv \in EnvValues, dotenvFile \in EnvValues :
          Import(procEnv, dotenvFile)
    /\ \E conv \in Inputs : Start(conv)

(***************************************************************************)
(* The caller and the process around the function.                         *)
(***************************************************************************)
\* something in the process changes the environment variable
SetEnv(v) ==
    /\ v # env
    /\ env' = v
    /\ UNCHANGED << envAtImport, MODEL_NAME, live, heap, visible, origin,
                    locals, stub, log >>

\* a new list object holding `turns`, with history `o`: the heap after it
\* (the object takes the lowest free id; which id it takes decides nothing)
NewId == CHOOSE l \in ListIds \ live : \A k \in ListIds \ live : l <= k
Alloc(turns, o) ==
    /\ live # ListIds
    /\ live' = live \cup { NewId }
    /\ heap' = [heap EXCEPT ![NewId] = turns]
    /\ origin' = [origin EXCEPT ![NewId] = o]

\* the caller continues a conversation a call returned with a user Turn, in a
\* new list (once: a second such list would be equal to the first)
AddUserTurn(l) ==
    /\ l \in visible
    /\ origin[l].output
    /\ ~ \E k \in visible : origin[k].parent = l /\ ~origin[k].output
    /\ Alloc(Append(heap[l], Turn("user", Hi)),
             [origin[l] EXCEPT !.parent = l, !.output = FALSE])
    /\ visible' = visible \cup { NewId }
    /\ UNCHANGED << config, locals, stub, log >>

\* a thread calls get_agent_response(messages) with a list the caller holds
Call(t, l) ==
    /\ pc[t] = "idle"
    /\ l \in visible
    /\ Cardinality({ k \in visible : origin[k].output })
          + Cardinality({ u \in Threads : pc[u] # "idle" }) < MaxCalls
    /\ pc' = [pc EXCEPT ![t] = "build"]
    /\ messages' = [messages EXCEPT ![t] = l]
    /\ snap' = [snap EXCEPT ![t] = heap[l]]
    /\ UNCHANGED << config, live, heap, visible, origin, current_messages,
                    completion, reply, ret, exc, request, stub, log >>

(***************************************************************************)
(* get_agent_response, lines 104-140, one action per statement.            *)
(***************************************************************************)
\* a test that ignores the first Turn's role
NeedsPromptAlways(msgs) == TRUE

\* a test that takes only the fixed text for a system prompt
NeedsPromptUnlessFixed(msgs) ==
    msgs = <<>> \/ msgs[1] # Turn("system", SYSTEM_PROMPT)

\* a test that only looks for the empty conversation
NeedsPromptIfEmpty(msgs) == msgs = <<>>

\* line 122: not messages or messages[0]["role"] != "system"
NeedsPrompt(msgs) == msgs = <<>> \/ msgs[1].role # "system"

\* the system Turn put after the conversation instead of before it
WithPromptLast(msgs) == msgs \o << Turn("system", SYSTEM_PROMPT) >>

\* line 123: [{"role": "system", "content": SYSTEM_PROMPT}] + messages
WithPrompt(msgs) == << Turn("system", SYSTEM_PROMPT) >> \o msgs

\* current_messages as a module-level variable, one for all the threads
BuildShared(t) ==
    /\ pc[t] = "build"
    /\ IF NeedsPrompt(heap[messages[t]])
       THEN /\ Alloc(WithPrompt(heap[messages[t]]), NoOrigin)
            /\ current_messages' = [u \in Threads |-> NewId]
       ELSE /\ current_messages' = [u \in Threads |-> messages[t]]
            /\ UNCHANGED << live, heap, origin >>
    /\ pc' = [pc EXCEPT ![t] = "complete"]
    /\ UNCHANGED << config, visible, messages, completion, reply, ret, exc,
                    snap, request, stub, log >>

\* lines 122-125
Build(t) ==
    /\ pc[t] = "build"
    /\ IF NeedsPrompt(heap[messages[t]])
       THEN /\ Alloc(WithPrompt(heap[messages[t]]), NoOrigin)
            /\ current_messages' = [current_messages EXCEPT ![t] = NewId]
       ELSE /\ current_messages' = [current_messages EXCEPT ![t] = messages[t]]
            /\ UNCHANGED << live, heap, origin >>
    /\ pc' = [pc EXCEPT ![t] = "complete"]
    /\ UNCHANGED << config, visible, messages, completion, reply, ret, exc,
                    snap, request, stub, log >>

\* the environment read again at every call
ModelArgFromEnv == EnvGet(env, DEFAULT_MODEL)

\* line 128: model=MODEL_NAME
ModelArg == MODEL_NAME

\* lines 127-130: the call of litellm.completion and its outcome
Dispatch(t, req, resp) ==
    /\ request' = [request EXCEPT ![t] = req]
    /\ completion' = [completion EXCEPT ![t] = resp]
    /\ IF resp.kind = "raise"
       THEN /\ pc' = [pc EXCEPT ![t] = "raised"]
            /\ exc' = [exc EXCEPT ![t] = resp.exc]
       ELSE /\ pc' = [pc EXCEPT ![t] = "extract"]
            /\ UNCHANGED exc
    /\ UNCHANGED << config, live, heap, visible, origin, messages, current_messages,
                    reply, ret, snap, log >>

\* what line 127 passes to the provider
Request(t) == [model |-> ModelArg, messages |-> heap[current_messages[t]]]

\* lines 127-130 with the real provider: any answer
Complete(t) ==
    /\ pc[t] = "complete"
    /\ \E resp \in Responses : Dispatch(t, Request(t), resp)
    /\ UNCHANGED stub

\* lines 127-130 with a test's stub: a request it has answered gets the same
\* answer again
CompleteStub(t) ==
    /\ pc[t] = "complete"
    /\ LET req == Request(t)
           seen == { e \in stub : e.request = req }
       IN  IF seen # {}
           THEN /\ \E e \in seen : Dispatch(t, req, e.response)
                /\ UNCHANGED stub
           ELSE \E resp \in StubResponses :
                   /\ Dispatch(t, req, resp)
                   /\ stub' = stub \cup { [request |-> req, response |-> resp] }

\* the exception lines 132-134 raise on a response, "" if none
ExtractError(c) ==
    IF c.kind = "malformed" THEN "KeyError"
    ELSE IF c.choices = <<>> THEN "IndexError"
    ELSE IF ~c.choices[1].isStr THEN "AttributeError"
    ELSE ""

\* line 132: completion["choices"][0]["message"]["content"]
FirstContent(c) == c.choices[1].content

\* lines 132-134 with the errors caught and an empty reply used instead
ExtractOrEmpty(t) ==
    /\ pc[t] = "extract"
    /\ reply' = [reply EXCEPT ![t] =
                    IF ExtractError(completion[t]) # "" THEN <<>>
                    ELSE Strip(FirstContent(completion[t]))]
    /\ pc' = [pc EXCEPT ![t] = "append"]
    /\ UNCHANGED << config, live, heap, visible, origin, messages, current_messages,
                    completion, ret, exc, snap, request, stub, log >>

\* lines 132-134
Extract(t) ==
    /\ pc[t] = "extract"
    /\ IF ExtractError(completion[t]) # ""
       THEN /\ pc' = [pc EXCEPT ![t] = "raised"]
            /\ exc' = [exc EXCEPT ![t] = ExtractError(completion[t])]
            /\ UNCHANGED reply
       ELSE /\ reply' = [reply EXCEPT ![t] = Strip(FirstContent(completion[t]))]
            /\ pc' = [pc EXCEPT ![t] = "append"]
            /\ UNCHANGED exc
    /\ UNCHANGED << config, live, heap, visible, origin, messages, current_messages,
                    completion, ret, snap, request, stub, log >>

\* how the list a call returns came to be
ResultOrigin(t) ==
    [ calls   |-> origin[messages[t]].calls + 1,
      inserts |-> origin[messages[t]].inserts
                    + (IF request[t].messages = snap[t] THEN 0 ELSE 1),
      parent  |-> messages[t],
      output  |-> TRUE ]

\* current_messages.append(...) in place of the concatenation
AppendInPlace(t) ==
    /\ pc[t] = "append"
    /\ heap' = [heap EXCEPT ![current_messages[t]] =
                   Append(@, Turn("assistant", reply[t]))]
    /\ origin' = [origin EXCEPT ![current_messages[t]] = ResultOrigin(t)]
    /\ ret' = [ret EXCEPT ![t] = current_messages[t]]
    /\ pc' = [pc EXCEPT ![t] = "done"]
    /\ UNCHANGED << config, live, visible, messages, current_messages, completion,
                    reply, exc, snap, request, stub, log >>

\* lines 137-139: current_messages + [{"role": "assistant", ...}]
AppendReply(t) ==
    /\ pc[t] = "append"
    /\ Alloc(Append(heap[current_messages[t]], Turn("assistant", reply[t])),
             ResultOrigin(t))
    /\ ret' = [ret EXCEPT ![t] = NewId]
    /\ pc' = [pc EXCEPT ![t] = "done"]
    /\ UNCHANGED << config, visible, messages, current_messages, completion,
                    reply, exc, snap, request, stub, log >>

\* what the caller saw of a call: its input, and the list or the exception
Outcome(t) ==
    [ input  |-> snap[t],
      exc    |-> exc[t],
      output |-> IF pc[t] = "done" THEN heap[ret[t]] ELSE <<>> ]

\* line 140, or the exception leaving the function: the caller has the
\* result, and the list of line 123 no reference is left to is freed
Leave(t) ==
    /\ pc[t] \in { "done", "raised" }
    /\ visible' = IF pc[t] = "done" THEN visible \cup { ret[t] } ELSE visible
    /\ LET freed == ({ current_messages[t] } \cap live) \ visible'
       IN  /\ live' = live \ freed
           /\ heap' = [l \in ListIds |-> IF l \in freed THEN <<>> ELSE heap[l]]
           /\ origin' = [l \in ListIds |-> IF l \in freed THEN NoOrigin
                                           ELSE origin[l]]
    /\ pc' = [pc EXCEPT ![t] = "idle"]
    /\ messages' = [messages EXCEPT ![t] = NoRef]
    /\ current_messages' = [current_messages EXCEPT ![t] = NoRef]
    /\ completion' = [completion EXCEPT ![t] = NoCompletion]
    /\ reply' = [reply EXCEPT ![t] = <<>>]
    /\ ret' = [ret EXCEPT ![t] = NoRef]
    /\ exc' = [exc EXCEPT ![t] = ""]
    /\ snap' = [snap EXCEPT ![t] = <<>>]
    /\ request' = [request EXCEPT ![t] = NoRequest]
    /\ UNCHANGED << config, stub >>

Return(t) == Leave(t) /\ UNCHANGED log

\* the same in a test, which keeps what each call gave it
ReturnStub(t) == Leave(t) /\ log' = log \cup { Outcome(t) }

(***************************************************************************)
(* Specifications: Spec with a provider that may answer anything; SpecStub *)
(* with a test's stub in its place and an environment that changes.        *)
(***************************************************************************)
Next ==
    \/ \E l \in ListIds : AddUserTurn(l)
    \/ \E t \in Threads, l \in ListIds : Call(t, l)
    \/ \E t \in Threads : Build(t)
    \/ \E t \in Threads : Complete(t)
    \/ \E t \in Threads : Extract(t)
    \/ \E t \in Threads : AppendReply(t)
    \/ \E t \in Threads : Return(t)

\* a test: one thread, the stub in the provider's place, and an environment
\* that changes
NextStub ==
    \/ \E v \in EnvValues : SetEnv(v)
    \/ \E l \in ListIds : AddUserTurn(l)
    \/ \E l \in ListIds : Call(1, l)
    \/ Build(1)
    \/ CompleteStub(1)
    \/ Extract(1)
    \/ AppendReply(1)
    \/ ReturnStub(1)

Spec == Init /\ [][Next]_vars

SpecStub == InitEnv /\ [][NextStub]_vars

(***************************************************************************)
(* The claims.                                                             *)
(***************************************************************************)
\* the provider has been called by the call of thread t
Sent(t) == pc[t] \in { "extract", "append", "done", "raised" }

\* C1: when the input is empty or its first Turn's role is not "system", the
\* sequence sent to the provider is one system Turn holding SYSTEM_PROMPT
\* followed by the input's Turns, all of them, in their order.
C1_PromptPrepended ==
    \A t \in Threads :
        (Sent(t) /\ (snap[t] = <<>> \/ snap[t][1].role # "system")) =>
            LET d == request[t].messages
            IN  /\ Len(d) = Len(snap[t]) + 1
                /\ d[1] = [role |-> "system", content |-> SYSTEM_PROMPT]
                /\ \A i \in 1..Len(snap[t]) : d[i + 1] = snap[t][i]

\* a call whose two-Turn input begins with an assistant Turn has reached the
\* provider with three Turns
C1_Witness ==
    \E t \in Threads :
        /\ pc[t] = "done"
        /\ Len(snap[t]) = 2
        /\ snap[t][1].role = "assistant"
        /\ Len(request[t].messages) = 3

\* C2: when the input's first Turn has role "system", whatever its content,
\* the sequence sent to the provider is the input, Turn for Turn.
C2_SystemFirstUnchanged ==
    \A t \in Threads :
        (Sent(t) /\ snap[t] # <<>> /\ snap[t][1].role = "system") =>
            request[t].messages = snap[t]

\* a call whose input begins with a system Turn other than SYSTEM_PROMPT has
\* returned
C2_Witness ==
    \E t \in Threads :
        /\ pc[t] = "done"
        /\ snap[t] # <<>>
        /\ snap[t][1].role = "system"
        /\ snap[t][1].content # SYSTEM_PROMPT

\* C3: on success the result is the sequence sent to the provider followed by
\* one Turn, of role "assistant", whose content is the first choice's content
\* without its leading and trailing whitespace.
C3_ReplyAppended ==
    \A t \in Threads :
        pc[t] = "done" =>
            LET out == heap[ret[t]]
                d   == request[t].messages
                raw == completion[t].choices[1].content
                s   == out[Len(out)].content
            IN  /\ Len(out) = Len(d) + 1
                /\ SubSeq(out, 1, Len(d)) = d
                /\ out[Len(out)].role = "assistant"
                /\ s = <<>> \/ (s[1] \notin Whitespace /\ s[Len(s)] \notin Whitespace)
                /\ \E i \in 0..Len(raw) :
                      /\ i + Len(s) <= Len(raw)
                      /\ SubSeq(raw, i + 1, i + Len(s)) = s
                      /\ \A k \in 1..Len(raw) :
                            (k <= i \/ k > i + Len(s)) => raw[k] \in Whitespace

\* a call has returned whose response had several choices, the first with
\* whitespace at both ends and inside
C3_Witness ==
    \E t \in Threads :
        /\ pc[t] = "done"
        /\ Len(completion[t].choices) > 1
        /\ completion[t].choices[1].content = <<" ", "H", " ", "i", "\n">>
        /\ heap[ret[t]][Len(heap[ret[t]])].content = <<"H", " ", "i">>

\* C4: on success the first Turn of the result has role "system".
C4_SystemFirst ==
    \A t \in Threads :
        pc[t] = "done" => heap[ret[t]] # <<>> /\ heap[ret[t]][1].role = "system"

\* a call on a conversation that begins with a user Turn has returned
C4_Witness ==
    \E t \in Threads :
        /\ pc[t] = "done"
        /\ snap[t] # <<>>
        /\ snap[t][1].role = "user"

\* C5: when the provider call fails (the provider raises, the response has no
\* "choices", no choice, or no content), the call never reaches the append:
\* it ends with the exception (the provider's own, when the provider raised),
\* returns no list, and leaves the input and the sequence sent as they were.
C5_AllOrNothing ==
    \A t \in Threads :
        LET c == completion[t]
            failed == \/ c.kind \in { "raise", "malformed" }
                      \/ c.kind = "return" /\ c.choices = <<>>
                      \/ c.kind = "return" /\ c.choices # <<>> /\ ~c.choices[1].isStr
        IN  /\ (Sent(t) /\ failed) => pc[t] \in { "extract", "raised" }
            /\ pc[t] = "raised" =>
                  /\ failed
                  /\ ret[t] = NoRef
                  /\ exc[t] # ""
                  /\ c.kind = "raise" => exc[t] = c.exc
                  /\ heap[messages[t]] = snap[t]
                  /\ heap[current_messages[t]] = request[t].messages

\* a call has ended with an exception on a response with an empty list of
\* choices
C5_Witness ==
    \E t \in Threads :
        /\ pc[t] = "raised"
        /\ completion[t].kind = "return"
        /\ completion[t].choices = <<>>

\* C6 as stated: the model sent is MODEL_NAME's value at import, and the
\* fallback when the variable was unset or empty.
C6_FallbackWhenEmpty ==
    \A t \in Threads :
        Sent(t) =>
            request[t].model =
                IF envAtImport.set /\ envAtImport.value # ""
                THEN envAtImport.value ELSE "gpt-3.5-turbo"

\* C6 amended: the model sent is MODEL_NAME's value at import, the empty
\* string included, and the fallback only when the variable was unset; a
\* later change of the environment changes nothing.
C6_FallbackWhenUnset ==
    \A t \in Threads :
        Sent(t) =>
            request[t].model =
                IF envAtImport.set THEN envAtImport.value ELSE "gpt-3.5-turbo"

\* a call has reached the provider with the empty model of the import, after
\* the variable was set to a model
C6_Witness ==
    \E t \in Threads :
        /\ Sent(t)
        /\ envAtImport = [set |-> TRUE, value |-> ""]
        /\ env = [set |-> TRUE, value |-> "gpt-4o"]
        /\ request[t].model = ""

\* C7: during and after a call, successful or failed, the caller's list holds
\* the Turns it held when the call began.
C7_InputUntouched ==
    \A t \in Threads : pc[t] # "idle" => heap[messages[t]] = snap[t]

\* a call on a conversation that begins with a system Turn, whose list the
\* function used as it was, has returned another list
C7_Witness ==
    \E t \in Threads :
        /\ pc[t] = "done"
        /\ current_messages[t] = messages[t]
        /\ ret[t] # messages[t]
        /\ Len(heap[ret[t]]) = Len(heap[messages[t]]) + 1

\* C8: with the stub, two calls with equal inputs give the caller the same
\* thing (the same list of Turns, or the same exception), whatever happened
\* between them.
C8_Deterministic ==
    /\ \A a, b \in log : a.input = b.input => a = b
    /\ \A t \in Threads : \A a \in log :
          (pc[t] \in { "done", "raised" } /\ a.input = snap[t]) =>
              a = [input |-> snap[t], exc |-> exc[t],
                   output |-> IF pc[t] = "done" THEN heap[ret[t]] ELSE <<>>]

\* a call has returned a conversation for an input an earlier call was given,
\* after a call with another input and a change of the environment
C8_Witness ==
    \E t \in Threads : \E a, b \in log :
        /\ pc[t] = "done"
        /\ a.input = snap[t]
        /\ a.output # <<>>
        /\ b.input # a.input
        /\ env # envAtImport

RECURSIVE Ancestors(_)
Ancestors(l) ==
    IF origin[l].parent = NoRef THEN <<>>
    ELSE << origin[l].parent >> \o Ancestors(origin[l].parent)

\* C10: in a session that feeds each result back, with or without a user
\* Turn added, the prompt is inserted at most once and only by the first
\* call: a later call sends its input as it is and returns it with one
\* assistant Turn added, and every earlier result is a prefix of a later one.
C10_PromptOnce ==
    /\ \A t \in Threads :
          (Sent(t) /\ origin[messages[t]].calls >= 1) =>
              request[t].messages = snap[t]
    /\ \A l \in visible :
          /\ origin[l].inserts <= 1
          /\ LET anc == Ancestors(l)
             IN  \A i \in 1..Len(anc) :
                    origin[anc[i]].calls >= 1 =>
                       /\ origin[l].inserts = origin[anc[i]].inserts
                       /\ Len(heap[anc[i]]) <= Len(heap[l])
                       /\ SubSeq(heap[l], 1, Len(heap[anc[i]])) = heap[anc[i]]
          /\ (origin[l].output /\ origin[origin[l].parent].calls >= 1) =>
                /\ Len(heap[l]) = Len(heap[origin[l].parent]) + 1
                /\ heap[l][Len(heap[l])].role = "assistant"

\* the caller holds the result of a second call, made on the first call's
\* result with a user Turn added; the first call inserted the prompt
C10_Witness ==
    \E l \in visible :
        /\ origin[l].output
        /\ origin[l].calls = 2
        /\ origin[l].inserts = 1
        /\ ~origin[origin[l].parent].output
        /\ heap[l][Len(heap[l]) - 1].role = "user"

====
